---- MODULE Spec2Model ----
(***************************************************************************)
(* Model of the BMP decoder of package xbmp (reader.go).                   *)
(*                                                                         *)
(* One behaviour is one call of Decode(r) on one input stream.  The stream *)
(* is the variable `stream`: the parameters of a BMP file, from which      *)
(* StreamByte gives the byte at every offset.  Decode never sees the       *)
(* parameters: every value it uses is parsed from StreamByte at the        *)
(* reader's cursor `pos`.  Every read of the io.Reader may fail (a short   *)
(* stream or any other I/O error), and so may the seek.                    *)
(***************************************************************************)
EXTENDS Integers, Sequences, FiniteSets

VARIABLES stream, pos, pc, ops, fileHeader, info, palette, img, y, retImg, retErr

vars == <<stream, pos, pc, ops, fileHeader, info, palette, img, y, retImg, retErr>>

\* ------------------------------------------------------------- constants

bmpFileHeaderSize == 14
coreHeaderSize == 12
infoHeaderSize == 40
biRGB == 0
biBitFields == 3

\* Bounds of the inputs the model draws.
MaxWidth == 4
MaxHeight == 2

\* The nil error, and the nil image.Image.
Nil == "nil"

NoImage == [kind |-> "nil"]

\* ------------------------------------------------------ integer helpers

Pow2(n) == 2 ^ n

\* x >> n, and x << n where the result stays below 2^31
Shr(x, n) == x \div Pow2(n)

Shl(x, n) == x * Pow2(n)

RECURSIVE BitAnd(_, _)
\* a & b on non-negative integers
BitAnd(a, b) ==
    IF a = 0 \/ b = 0 THEN 0
    ELSE (IF a % 2 = 1 /\ b % 2 = 1 THEN 1 ELSE 0) + 2 * BitAnd(a \div 2, b \div 2)

RECURSIVE BitOr(_, _)
\* a | b on non-negative integers
BitOr(a, b) ==
    IF a = 0 THEN b
    ELSE IF b = 0 THEN a
    ELSE (IF a % 2 = 1 \/ b % 2 = 1 THEN 1 ELSE 0) + 2 * BitOr(a \div 2, b \div 2)

\* x &^ 3 : clear the two low bits of a non-negative int
AndNot3(x) == x - BitAnd(x, 3)

\* byte(v), uint16(v): truncating conversions
ToByte(v) == v % 256

ToUint16(v) == v % 65536

\* A uint32 that may pass 2^31 (a channel mask, a 32-bit pixel) is held as a word:
\* its four bytes, least significant first.
WordBit(w, i) == IF i >= 32 THEN 0 ELSE (Shr(w[(i \div 8) + 1], i % 8)) % 2

\* a & b on words
WordAnd(a, b) == [k \in 1..4 |-> BitAnd(a[k], b[k])]

\* w >> n on a word
WordShr(w, n) ==
    [k \in 1..4 |->
        WordBit(w, n + 8 * (k - 1)) + 2 * WordBit(w, n + 8 * (k - 1) + 1)
        + 4 * WordBit(w, n + 8 * (k - 1) + 2) + 8 * WordBit(w, n + 8 * (k - 1) + 3)
        + 16 * WordBit(w, n + 8 * (k - 1) + 4) + 32 * WordBit(w, n + 8 * (k - 1) + 5)
        + 64 * WordBit(w, n + 8 * (k - 1) + 6) + 128 * WordBit(w, n + 8 * (k - 1) + 7)]

ZeroWord == <<0, 0, 0, 0>>

\* The number a word of at most 31 bits holds.
WordValue(w) == w[1] + 256 * w[2] + 65536 * w[3] + 16777216 * w[4]

\* ------------------------------------------------------ the input stream

\* Little-endian byte k of the two's complement encoding of v in 4 bytes.
LEByte(v, k) ==
    IF v >= 0 THEN (v \div Pow2(8 * k)) % 256
    ELSE ((((v + 1073741824) + 1073741824) \div Pow2(8 * k)) % 256) + (IF k = 3 THEN 128 ELSE 0)

\* Number of colour-table entries the file holds.
FileColors(s) ==
    IF s.bitCount > 8 THEN 0
    ELSE IF s.clrUsed # 0 THEN s.clrUsed ELSE Pow2(s.bitCount)

PaletteStart(s) == bmpFileHeaderSize + s.hsize

MasksStart(s) == PaletteStart(s) + 4 * FileColors(s)

\* The pixel-data offset the file header declares.
FileDataOffset(s) ==
    MasksStart(s) + (IF s.compression = biBitFields THEN 16 ELSE 0) + s.gap

\* Colour-table entry i of the file, as its 4 bytes blue, green, red, reserved.
FilePaletteEntry(s, i) ==
    IF s.pal = "gray" THEN <<i % 256, i % 256, i % 256, 0>>
    ELSE <<(3 * i + 10) % 256, (5 * i + 20) % 256, (7 * i + 30) % 256, 9>>

\* Bytes 0..13 : the file header (FileHeader).
FileHeaderByte(s, o) ==
    IF o < 2 THEN s.sig[o + 1]
    ELSE IF o < 6 THEN LEByte(FileDataOffset(s) + 64, o - 2)
    ELSE IF o < 10 THEN 0
    ELSE LEByte(FileDataOffset(s), o - 10)

\* Bytes of a 12-byte core header after the size tag (k counts from the tag's end).
CoreHeaderByte(s, k) ==
    IF k < 2 THEN LEByte(s.width, k)
    ELSE IF k < 4 THEN LEByte(s.height, k - 2)
    ELSE IF k < 6 THEN LEByte(1, k - 4)
    ELSE LEByte(s.bitCount, k - 6)

\* Bytes of a 40-byte info header after the size tag (InfoHeader field order).
InfoHeaderByte(s, k) ==
    IF k < 4 THEN LEByte(s.width, k)
    ELSE IF k < 8 THEN LEByte(s.height, k - 4)
    ELSE IF k < 10 THEN LEByte(1, k - 8)
    ELSE IF k < 12 THEN LEByte(s.bitCount, k - 10)
    ELSE IF k < 16 THEN LEByte(s.compression, k - 12)
    ELSE IF k < 28 THEN 0
    ELSE IF k < 32 THEN LEByte(s.clrUsed, k - 28)
    ELSE 0

\* The byte at offset o of the stream.
StreamByte(s, o) ==
    IF o < bmpFileHeaderSize THEN FileHeaderByte(s, o)
    ELSE IF o < bmpFileHeaderSize + 4 THEN LEByte(s.hsize, o - bmpFileHeaderSize)
    ELSE IF o < PaletteStart(s) THEN
        IF s.hsize = coreHeaderSize
        THEN CoreHeaderByte(s, o - bmpFileHeaderSize - 4)
        ELSE InfoHeaderByte(s, o - bmpFileHeaderSize - 4)
    ELSE IF o < MasksStart(s) THEN
        FilePaletteEntry(s, (o - PaletteStart(s)) \div 4)[((o - PaletteStart(s)) % 4) + 1]
    ELSE IF o < FileDataOffset(s) - s.gap THEN
        s.masks[((o - MasksStart(s)) \div 4) + 1][((o - MasksStart(s)) % 4) + 1]
    ELSE IF o < FileDataOffset(s) THEN 0
    ELSE s.pat[((o - FileDataOffset(s)) % Len(s.pat)) + 1]

\* binary.LittleEndian.Uint16 / Uint32 of the bytes at offset o
Uint16At(s, o) == StreamByte(s, o) + 256 * StreamByte(s, o + 1)

Uint32At(s, o) == Uint16At(s, o) + 65536 * Uint16At(s, o + 2)

\* int32(binary.LittleEndian.Uint32(...)) of the bytes at offset o
Int32At(s, o) ==
    LET low == Uint16At(s, o) + 65536 * StreamByte(s, o + 2)
               + 16777216 * (StreamByte(s, o + 3) % 128)
    IN  IF StreamByte(s, o + 3) >= 128 THEN (low - 1073741824) - 1073741824 ELSE low

\* ------------------------------------------------- Decode : header checks

\* string(fileHeader.Signature[:]) == "BM"
SignatureOK(sig) == sig = <<66, 77>>

\* The zero value of InfoHeader (var info InfoHeader).
ZeroInfo ==
    [Size |-> 0, Width |-> 0, Height |-> 0, Planes |-> 0, BitCount |-> 0,
     Compression |-> 0, ClrUsed |-> 0,
     RedMask |-> ZeroWord, GreenMask |-> ZeroWord, BlueMask |-> ZeroWord,
     AlphaMask |-> ZeroWord]

ZeroFileHeader == [Signature |-> <<0, 0>>, FileSize |-> 0, Reserved |-> 0, DataOffset |-> 0]

\* The fields Decode fills from a 12-byte core header read at offset o.
CoreFields(s, o, inf) ==
    [inf EXCEPT !.Width = Uint16At(s, o),
                !.Height = Uint16At(s, o + 2),
                !.Planes = Uint16At(s, o + 4),
                !.BitCount = Uint16At(s, o + 6),
                !.Compression = biRGB]

\* The fields Decode fills from the 36 remaining bytes of a 40-byte header at o.
InfoFields(s, o, inf) ==
    [inf EXCEPT !.Width = Int32At(s, o),
                !.Height = Int32At(s, o + 4),
                !.Planes = Uint16At(s, o + 8),
                !.BitCount = Uint16At(s, o + 10),
                !.Compression = Uint32At(s, o + 12)]

\* ------------------------------------------------------------ parsePalette

\* Whether parsePalette reads a colour table at all.
HasPalette(inf) == ~(inf.BitCount > 8 /\ inf.ClrUsed = 0)

\* The number of entries parsePalette reads.
PaletteEntries(inf) == IF inf.ClrUsed > 0 THEN inf.ClrUsed ELSE Pow2(inf.BitCount)

PaletteColorBGR(bgr) == <<bgr[1], bgr[2], bgr[3], 255>>

\* color.RGBA{bgr[2], bgr[1], bgr[0], 255} (bgr is 1-based here)
PaletteColor(bgr) == <<bgr[3], bgr[2], bgr[1], 255>>

\* The 4 bytes read at offset o.
Read4(s, o) == <<StreamByte(s, o), StreamByte(s, o + 1), StreamByte(s, o + 2), StreamByte(s, o + 3)>>

\* The palette after n entries were read from offset o.
ReadPalette(s, o, n) == [i \in 1..n |-> PaletteColor(Read4(s, o + 4 * (i - 1)))]

\* Where the colour-table loop may fail: at its first or at its last entry.
PaletteFailPoints(n) == {0, n - 1} \cap (0..(n - 1))

\* Decode's step after the colour table: the masks are read in bit-fields mode only.
AfterPaletteSwapped(inf) == IF inf.Compression = biRGB THEN "masks" ELSE "seek"

AfterPalette(inf) == IF inf.Compression = biBitFields THEN "masks" ELSE "seek"

\* ---------------------------------------------------------------- maskShift

RECURSIVE LowZeros(_, _)
\* first loop of maskShift, from bit i on: the low zero bits of a non-zero mask
LowZeros(mask, i) == IF WordBit(mask, i) = 0 /\ i < 32 THEN 1 + LowZeros(mask, i + 1) ELSE 0

RECURSIVE LowOnes(_, _)
\* second loop of maskShift, from bit i on: the one bits that follow
LowOnes(mask, i) == IF WordBit(mask, i) = 1 THEN 1 + LowOnes(mask, i + 1) ELSE 0

maskShift(mask) ==
    IF mask = ZeroWord THEN [shift |-> 0, bits |-> 0]
    ELSE [shift |-> LowZeros(mask, 0), bits |-> LowOnes(mask, LowZeros(mask, 0))]

\* ------------------------------------------------------- rows and pixels

\* height as the decoders use it: the absolute value of info.Height
AbsHeight(inf) == IF inf.Height < 0 THEN -inf.Height ELSE inf.Height

\* bytesPerRow of readIndexedData
BytesPerRowIndexed(width, bitsPerPixel) == ((width * bitsPerPixel + 31) \div 32) * 4

\* bytesPerRow of read16BitData
BytesPerRow16(width) == AndNot3(width * 2 + 3)

BytesPerRow24Unpadded(width) == width * 3

\* bytesPerRow of read24BitData
BytesPerRow24(width) == AndNot3(width * 3 + 3)

\* bytesPerRow of read32BitData
BytesPerRow32(width) == width * 4

BytesPerRow(inf) ==
    IF inf.BitCount = 16 THEN BytesPerRow16(inf.Width)
    ELSE IF inf.BitCount = 24 THEN BytesPerRow24(inf.Width)
    ELSE IF inf.BitCount = 32 THEN BytesPerRow32(inf.Width)
    ELSE BytesPerRowIndexed(inf.Width, inf.BitCount)

\* The row buffer after io.ReadFull read n bytes at offset o.
RowAt(s, o, n) == [k \in 0..(n - 1) |-> StreamByte(s, o + k)]

\* targetY of the four decoders, for loop counter yy
TargetY(inf, yy) == IF inf.Height > 0 THEN inf.Height - 1 - yy ELSE yy

IndexedDepthUpTo8(bitCount) == bitCount <= 8

\* case 1, 4, 8 of decodePixelData's switch
IndexedDepth(bitCount) == bitCount \in {1, 4, 8}

\* The number of rows each decoder's loop reads.
LoopRows(inf) == IF inf.BitCount = 24 THEN inf.Height ELSE AbsHeight(inf)

BitMaskFull(bitsPerPixel) == 255

\* bitMask := byte(1<<bitsPerPixel - 1)
BitMask(bitsPerPixel) == ToByte(Pow2(bitsPerPixel) - 1)

\* readIndexedData: the colour index of pixel x of a row
IndexedPixel(row, x, bitCount) ==
    LET pixelsPerByte == 8 \div bitCount
        bytePos == x \div pixelsPerByte
        off == (x % pixelsPerByte) * bitCount
        bitOffset == IF bitCount = 1 THEN 7 - off ELSE off
    IN  BitAnd(Shr(row[bytePos], bitOffset), BitMask(bitCount))

\* read16BitData: one channel of a 16-bit pixel, expanded to 16 bits.  uint32(pixel)
\* & mask is below 2^16 and, the mask not being zero, its shift leaves at most 16 -
\* bits bits of it: nothing here passes 2^31.
Channel16(pixel, mask) ==
    LET ms == maskShift(mask)
        c0 == WordValue(WordAnd(pixel, mask))
        c1 == Shl(Shr(c0, ms.shift), 16 - ms.bits)
        c2 == BitOr(c1, Shr(c1, ms.bits))
    IN  ToUint16(c2)

\* The masks of read16BitData: 0xF800, 0x07E0, 0x001F unless bit-fields mode gives them.
Masks16(inf) ==
    IF inf.Compression = biBitFields
    THEN <<inf.RedMask, inf.GreenMask, inf.BlueMask>>
    ELSE <<(<<0, 248, 0, 0>>), (<<224, 7, 0, 0>>), (<<31, 0, 0, 0>>)>>

\* The masks of read32BitData: 0x00FF0000, 0x0000FF00, 0x000000FF, 0xFF000000 unless
\* bit-fields mode gives them.
Masks32(inf) ==
    IF inf.Compression = biBitFields
    THEN <<inf.RedMask, inf.GreenMask, inf.BlueMask, inf.AlphaMask>>
    ELSE <<(<<0, 0, 255, 0>>), (<<0, 255, 0, 0>>), (<<255, 0, 0, 0>>), (<<0, 0, 0, 255>>)>>

\* read16BitData: the color.RGBA64 of pixel x of a row
Pixel16(row, x, inf) ==
    LET pixel == <<row[2 * x], row[2 * x + 1], 0, 0>>
        m == Masks16(inf)
    IN  <<Channel16(pixel, m[1]), Channel16(pixel, m[2]), Channel16(pixel, m[3]), 65535>>

\* read32BitData: one channel, byte((pixel & mask) >> shift)
Channel32(pixel, mask) == WordShr(WordAnd(pixel, mask), maskShift(mask).shift)[1]

\* read32BitData: the color.RGBA of pixel x of a row
Pixel32(row, x, inf) ==
    LET pixel == <<row[4 * x], row[4 * x + 1], row[4 * x + 2], row[4 * x + 3]>>
        m == Masks32(inf)
    IN  <<Channel32(pixel, m[1]), Channel32(pixel, m[2]), Channel32(pixel, m[3]),
          IF m[4] = ZeroWord THEN 255 ELSE Channel32(pixel, m[4])>>

\* read24BitData: the color.RGBA of pixel x of a row
Pixel24(row, x) == <<row[3 * x + 2], row[3 * x + 1], row[3 * x], 255>>

\* The value the decoder of inf.BitCount stores for pixel x of a row.
RowPixel(row, x, inf) ==
    IF inf.BitCount = 16 THEN Pixel16(row, x, inf)
    ELSE IF inf.BitCount = 24 THEN Pixel24(row, x)
    ELSE IF inf.BitCount = 32 THEN Pixel32(row, x, inf)
    ELSE IndexedPixel(row, x, inf.BitCount)

\* ----------------------------------------------------------------- images

\* img.At(x, y) of an image.Paletted: the palette entry of the stored index
ColorAt(im, x, yy) == im.palette[im.pix[<<x, yy>>] + 1]

\* image.NewPaletted / NewRGBA64 / NewRGBA over image.Rect(0, 0, width, height)
NewImage(kind, width, height, pal, zero) ==
    [kind |-> kind, w |-> width, h |-> height, palette |-> pal,
     pix |-> [p \in (0..(width - 1)) \X (0..(height - 1)) |-> zero]]

\* The image with one decoded row stored at row ty.
SetRow(im, ty, row, inf) ==
    [im EXCEPT !.pix = [p \in DOMAIN im.pix |->
        IF p[2] = ty THEN RowPixel(row, p[1], inf) ELSE im.pix[p]]]

\* ----------------------------------------------------------------- inputs

\* Channel masks a bit-fields file may carry: 5-6-5, and 8-8-8-8 in R,G,B,A byte order.
Masks565 == <<(<<0, 248, 0, 0>>), (<<224, 7, 0, 0>>), (<<31, 0, 0, 0>>), ZeroWord>>

MasksRGBA == <<(<<255, 0, 0, 0>>), (<<0, 255, 0, 0>>), (<<0, 0, 255, 0>>), (<<0, 0, 0, 255>>)>>

MaskSets == {Masks565, MasksRGBA}

\* Pixel-data contents, repeated from the pixel-data offset on.
Patterns == {<<1, 0, 0, 0>>, <<255>>, <<18, 52, 86, 120, 154>>}

\* Bit depths a header may declare: the six supported ones, and 2 and 15.
BitCounts == {1, 4, 8, 16, 24, 32, 2, 15}

\* Widths beyond MaxWidth at which a 1-bit or 4-bit row fills and passes 4 bytes.
WideWidths(bc) == IF bc = 1 THEN {32, 33} ELSE IF bc = 4 THEN {8, 9} ELSE {}

Widths(bc) == (1..MaxWidth) \cup WideWidths(bc)

Heights == {h \in (-MaxHeight)..MaxHeight : h # 0}

\* Colour table and gap before the pixel data: the two layouts drawn.
Layouts == {[pal |-> "gray", gap |-> 0], [pal |-> "ramp", gap |-> 4]}

\* Files with a 40-byte header.
InfoInputs ==
    {[sig |-> <<66, 77>>, hsize |-> infoHeaderSize, width |-> w, height |-> h,
      bitCount |-> bc, compression |-> c, clrUsed |-> cu, masks |-> m,
      pal |-> l.pal, gap |-> l.gap, pat |-> p] :
        bc \in BitCounts, h \in Heights, c \in {biRGB, biBitFields}, cu \in {0, 2},
        m \in MaskSets, l \in Layouts, p \in Patterns, w \in 1..33}

\* Files with a 12-byte core header: no compression, colour count or negative height.
CoreInputs ==
    {[sig |-> <<66, 77>>, hsize |-> coreHeaderSize, width |-> w, height |-> h,
      bitCount |-> bc, compression |-> biRGB, clrUsed |-> 0, masks |-> Masks565,
      pal |-> l.pal, gap |-> l.gap, pat |-> p] :
        bc \in BitCounts, h \in 1..MaxHeight, l \in Layouts, p \in Patterns, w \in 1..33}

\* The inputs kept: a width the bit depth draws, a colour count only with a colour
\* table, one mask set unless the masks are read and used.
Drawn(s) ==
    /\ s.width \in Widths(s.bitCount)
    /\ s.clrUsed # 0 => s.bitCount <= 8
    /\ (s.compression # biBitFields \/ s.bitCount <= 8) => s.masks = Masks565

GoodInputs == {s \in InfoInputs \cup CoreInputs : Drawn(s)}

\* A few files of one pixel, to carry a bad signature or an unknown header size.
SmallInputs == {s \in GoodInputs : s.width = 1 /\ s.height = 1 /\ s.gap = 0 /\ Len(s.pat) = 1}

BadSignatureInputs == {[s EXCEPT !.sig = g] : s \in SmallInputs, g \in {<<66, 0>>, <<0, 77>>}}

BadHeaderInputs == {[s EXCEPT !.hsize = 108] : s \in SmallInputs}

Inputs == GoodInputs \cup BadSignatureInputs \cup BadHeaderInputs

\* ------------------------------------------------------------ the machine

Log(op, n, ok) == [op |-> op, n |-> n, ok |-> ok]

\* Decode returns (im, err).
Return(im, err) ==
    /\ pc' = "done"
    /\ retImg' = im
    /\ retErr' = err

Init ==
    /\ stream \in Inputs
    /\ pos = 0
    /\ pc = "fileHeader"
    /\ ops = <<>>
    /\ fileHeader = ZeroFileHeader
    /\ info = ZeroInfo
    /\ palette = <<>>
    /\ img = NoImage
    /\ y = 0
    /\ retImg = NoImage
    /\ retErr = Nil

\* binary.Read(r, LittleEndian, &fileHeader) and the signature check
ReadFileHeader ==
    /\ pc = "fileHeader"
    /\ \/ /\ ops' = Append(ops, Log("fileHeader", bmpFileHeaderSize, FALSE))
          /\ Return(NoImage, "io")
          /\ UNCHANGED <<pos, fileHeader>>
       \/ /\ ops' = Append(ops, Log("fileHeader", bmpFileHeaderSize, TRUE))
          /\ pos' = pos + bmpFileHeaderSize
          /\ fileHeader' = [Signature |-> <<StreamByte(stream, pos), StreamByte(stream, pos + 1)>>,
                            FileSize |-> Uint32At(stream, pos + 2),
                            Reserved |-> Uint32At(stream, pos + 6),
                            DataOffset |-> Uint32At(stream, pos + 10)]
          /\ IF SignatureOK(fileHeader'.Signature)
             THEN pc' = "headerSize" /\ UNCHANGED <<retImg, retErr>>
             ELSE Return(NoImage, "invalid BMP signature")
    /\ UNCHANGED <<stream, info, palette, img, y>>

\* binary.Read(r, LittleEndian, &headerSize) and the switch on it
ReadHeaderSize ==
    /\ pc = "headerSize"
    /\ \/ /\ ops' = Append(ops, Log("headerSize", 4, FALSE))
          /\ Return(NoImage, "io")
          /\ UNCHANGED <<pos, info>>
       \/ /\ ops' = Append(ops, Log("headerSize", 4, TRUE))
          /\ pos' = pos + 4
          /\ info' = [info EXCEPT !.Size = Uint32At(stream, pos)]
          /\ IF info'.Size \in {coreHeaderSize, infoHeaderSize}
             THEN pc' = "infoHeader" /\ UNCHANGED <<retImg, retErr>>
             ELSE Return(NoImage, "unsupported BMP header")
    /\ UNCHANGED <<stream, fileHeader, palette, img, y>>

\* case coreHeaderSize / case infoHeaderSize: the rest of the info header
ReadInfoHeader ==
    /\ pc = "infoHeader"
    /\ \/ /\ ops' = Append(ops, Log("infoHeader", info.Size - 4, FALSE))
          /\ Return(NoImage, "io")
          /\ UNCHANGED <<pos, info>>
       \/ /\ info.Size = coreHeaderSize
          /\ ops' = Append(ops, Log("infoHeader", 8, TRUE))
          /\ pos' = pos + 8
          /\ info' = CoreFields(stream, pos, info)
          /\ pc' = "palette"
          /\ UNCHANGED <<retImg, retErr>>
       \/ /\ info.Size = infoHeaderSize
          /\ ops' = Append(ops, Log("infoHeader", infoHeaderSize - 4, TRUE))
          /\ pos' = pos + infoHeaderSize - 4
          /\ info' = InfoFields(stream, pos, info)
          /\ pc' = "palette"
          /\ UNCHANGED <<retImg, retErr>>
    /\ UNCHANGED <<stream, fileHeader, palette, img, y>>

\* palette, err := parsePalette(r, info)
ParsePalette ==
    /\ pc = "palette"
    /\ \/ /\ ~HasPalette(info)
          /\ palette' = <<>>
          /\ pc' = AfterPalette(info)
          /\ UNCHANGED <<pos, ops, retImg, retErr>>
       \/ /\ HasPalette(info)
          /\ \E k \in PaletteFailPoints(PaletteEntries(info)) :
                /\ ops' = ops \o [i \in 1..(k + 1) |-> Log("palette", 4, i <= k)]
                /\ pos' = pos + 4 * k
                /\ Return(NoImage, "io")
                /\ UNCHANGED palette
       \/ /\ HasPalette(info)
          /\ ops' = ops \o [i \in 1..PaletteEntries(info) |-> Log("palette", 4, TRUE)]
          /\ pos' = pos + 4 * PaletteEntries(info)
          /\ palette' = ReadPalette(stream, pos, PaletteEntries(info))
          /\ pc' = AfterPalette(info)
          /\ UNCHANGED <<retImg, retErr>>
    /\ UNCHANGED <<stream, fileHeader, info, img, y>>

\* if info.Compression == biBitFields: binary.Read of the four masks
ReadMasks ==
    /\ pc = "masks"
    /\ \/ /\ ops' = Append(ops, Log("masks", 16, FALSE))
          /\ Return(NoImage, "io")
          /\ UNCHANGED <<pos, info>>
       \/ /\ ops' = Append(ops, Log("masks", 16, TRUE))
          /\ pos' = pos + 16
          /\ info' = [info EXCEPT !.RedMask = Read4(stream, pos),
                                  !.GreenMask = Read4(stream, pos + 4),
                                  !.BlueMask = Read4(stream, pos + 8),
                                  !.AlphaMask = Read4(stream, pos + 12)]
          /\ pc' = "seek"
          /\ UNCHANGED <<retImg, retErr>>
    /\ UNCHANGED <<stream, fileHeader, palette, img, y>>

\* r.(io.Seeker).Seek(int64(fileHeader.DataOffset), io.SeekStart)
SeekPixelData ==
    /\ pc = "seek"
    /\ \/ /\ ops' = Append(ops, Log("seek", fileHeader.DataOffset, FALSE))
          /\ Return(NoImage, "seek")
          /\ UNCHANGED pos
       \/ /\ ops' = Append(ops, Log("seek", fileHeader.DataOffset, TRUE))
          /\ pos' = fileHeader.DataOffset
          /\ pc' = "decode"
          /\ UNCHANGED <<retImg, retErr>>
    /\ UNCHANGED <<stream, fileHeader, info, palette, img, y>>

\* decodePixelData: the image of the bit depth, or "unsupported bit depth"
DecodePixelData ==
    /\ pc = "decode"
    /\ \/ /\ IndexedDepth(info.BitCount)
          /\ img' = NewImage("Paletted", info.Width, AbsHeight(info), palette, 0)
          /\ pc' = "rows"
          /\ UNCHANGED <<retImg, retErr>>
       \/ /\ info.BitCount = 16
          /\ img' = NewImage("RGBA64", info.Width, AbsHeight(info), <<>>, <<0, 0, 0, 0>>)
          /\ pc' = "rows"
          /\ UNCHANGED <<retImg, retErr>>
       \/ /\ info.BitCount \in {24, 32}
          /\ img' = NewImage("RGBA", info.Width, AbsHeight(info), <<>>, <<0, 0, 0, 0>>)
          /\ pc' = "rows"
          /\ UNCHANGED <<retImg, retErr>>
       \/ /\ ~IndexedDepth(info.BitCount)
          /\ info.BitCount \notin {16, 24, 32}
          /\ Return(NoImage, "unsupported bit depth")
          /\ UNCHANGED img
    /\ y' = 0
    /\ UNCHANGED <<stream, pos, ops, fileHeader, info, palette>>

\* One iteration of the row loop of readIndexedData, read16BitData, read24BitData
\* or read32BitData: io.ReadFull(r, row), then the row's pixels are stored.
ReadRow ==
    /\ pc = "rows"
    /\ y < LoopRows(info)
    /\ \/ /\ ops' = Append(ops, Log("row", BytesPerRow(info), FALSE))
          /\ Return(IF IndexedDepth(info.BitCount) THEN img ELSE NoImage, "io")
          /\ UNCHANGED <<pos, img, y>>
       \/ /\ ops' = Append(ops, Log("row", BytesPerRow(info), TRUE))
          /\ pos' = pos + BytesPerRow(info)
          /\ img' = SetRow(img, TargetY(info, y), RowAt(stream, pos, BytesPerRow(info)), info)
          /\ y' = y + 1
          /\ UNCHANGED <<pc, retImg, retErr>>
    /\ UNCHANGED <<stream, fileHeader, info, palette>>

\* The row loop is over: the decoder returns the image and no error.
Finish ==
    /\ pc = "rows"
    /\ ~(y < LoopRows(info))
    /\ Return(img, Nil)
    /\ UNCHANGED <<stream, pos, ops, fileHeader, info, palette, img, y>>

Next ==
    \/ ReadFileHeader
    \/ ReadHeaderSize
    \/ ReadInfoHeader
    \/ ParsePalette
    \/ ReadMasks
    \/ SeekPixelData
    \/ DecodePixelData
    \/ ReadRow
    \/ Finish

Spec == Init /\ [][Next]_vars

\* ================================================================ claims

\* What the input file declares and holds, read from its bytes.
SupportedDepths == {1, 4, 8, 16, 24, 32}

DeclaredSignature == <<StreamByte(stream, 0), StreamByte(stream, 1)>>

DeclaredHeaderSize == Uint32At(stream, 14)

DeclaredBitCount == IF DeclaredHeaderSize = 12 THEN Uint16At(stream, 24) ELSE Uint16At(stream, 28)

DeclaredWidth == IF DeclaredHeaderSize = 12 THEN Uint16At(stream, 18) ELSE Int32At(stream, 18)

DeclaredHeight == IF DeclaredHeaderSize = 12 THEN Uint16At(stream, 20) ELSE Int32At(stream, 22)

DeclaredRows == IF DeclaredHeight < 0 THEN -DeclaredHeight ELSE DeclaredHeight

DeclaredCompression == IF DeclaredHeaderSize = 12 THEN 0 ELSE Uint32At(stream, 30)

DeclaredClrUsed == IF DeclaredHeaderSize = 40 THEN Uint32At(stream, 46) ELSE 0

DeclaredDataOffset == Uint32At(stream, 10)

Ceil(a, b) == (a + b - 1) \div b

\* The padded byte length of a scanline: ceil(width * bitCount / 32) * 4.
ScanlineBytes == Ceil(DeclaredWidth * DeclaredBitCount, 32) * 4

\* Where on-disk scanline s starts, and its bytes.
ScanlineStart(s) == DeclaredDataOffset + s * ScanlineBytes

Scanline(s) == [k \in 0..(ScanlineBytes - 1) |-> StreamByte(stream, ScanlineStart(s) + k)]

\* The image row the orientation rule gives on-disk scanline s.
OrientedRow(s) == IF DeclaredHeight > 0 THEN DeclaredRows - 1 - s ELSE s

Decoded == pc = "done" /\ retErr = Nil

OpsOf(kind) == {i \in DOMAIN ops : ops[i].op = kind}

OkOpsOf(kind) == {i \in DOMAIN ops : ops[i].op = kind /\ ops[i].ok}

\* C1: orientation law. In a decoded image of any supported bit depth, the pixels of
\* on-disk scanline s are at image row height-1-s when the declared height is
\* positive, and at image row s when it is negative.
C1_OrientationLaw ==
    (Decoded /\ DeclaredBitCount \in SupportedDepths) =>
        \A s \in 0..(DeclaredRows - 1) : \A x \in 0..(DeclaredWidth - 1) :
            retImg.pix[<<x, OrientedRow(s)>>] = RowPixel(Scanline(s), x, info)

\* C2: whenever Decode returns a non-nil error, the image it returns is nil.
C2_NoImageWithError == (pc = "done" /\ retErr # Nil) => retImg = NoImage

\* C3: for a 40-byte-header image of bit depth <= 8, the palette built has clrUsed
\* entries when the header's colour-used count is nonzero and 2^bitCount entries
\* when it is zero, and 4 bytes per entry were consumed.
C3_PaletteLength ==
    (pc \in {"masks", "seek"} /\ DeclaredHeaderSize = 40 /\ DeclaredBitCount \in {1, 4, 8}) =>
        /\ Len(palette) = (IF DeclaredClrUsed # 0 THEN DeclaredClrUsed ELSE 2 ^ DeclaredBitCount)
        /\ 4 * Cardinality(OkOpsOf("palette")) = 4 * Len(palette)
        /\ \A i \in OpsOf("palette") : ops[i].n = 4

\* The 16-bit decoder works with the masks 0xF800, 0x07E0, 0x001F.
Uses565 == DeclaredCompression # 3 \/ <<info.RedMask, info.GreenMask, info.BlueMask>> = SubSeq(Masks565, 1, 3)

\* C4: in the 16-bit decoder with the 5-6-5 masks, a source pixel 0xFFFF decodes to
\* R = G = B = 0xFFFF with alpha 0xFFFF.
C4_WhiteIsFullIntensity ==
    (Decoded /\ DeclaredBitCount = 16 /\ Uses565) =>
        \A s \in 0..(DeclaredRows - 1) : \A x \in 0..(DeclaredWidth - 1) :
            (Scanline(s)[2 * x] = 255 /\ Scanline(s)[2 * x + 1] = 255) =>
                retImg.pix[<<x, OrientedRow(s)>>] = <<65535, 65535, 65535, 65535>>

BadSignature == DeclaredSignature # <<66, 77>>

BadHeaderSize == DeclaredHeaderSize \notin {12, 40}

BadBitCount == DeclaredBitCount \notin SupportedDepths

\* C5: Decode returns an error and no image when the signature is not "BM", the
\* header size is neither 12 nor 40, or the bit depth is not 1, 4, 8, 16, 24 or 32;
\* on a bad signature only the 14-byte file header was read and nothing was sought.
C5_RejectsMalformed ==
    pc = "done" =>
        /\ (BadSignature \/ BadHeaderSize \/ BadBitCount) =>
                retErr # Nil /\ retImg = NoImage /\ img = NoImage
        /\ BadSignature => pos <= 14 /\ OpsOf("seek") = {} /\ Len(ops) = 1

C5_Witness ==
    /\ pc = "done"
    /\ ~BadSignature /\ ~BadHeaderSize /\ BadBitCount
    /\ retErr = "unsupported bit depth"
    /\ retImg = NoImage

\* The colour-table entry i of the file: its 4 bytes.
TableEntry(i) == Read4(stream, 14 + DeclaredHeaderSize + 4 * i)

\* The file of the example: 8-bit, 2x2, height +2, entry 1 = (1,1,1), rows 01 00 00 00.
IsExample ==
    /\ DeclaredBitCount = 8 /\ DeclaredWidth = 2 /\ DeclaredHeight = 2
    /\ TableEntry(1) = <<1, 1, 1, 0>>
    /\ \A s \in 0..1 : Scanline(s) = [k \in 0..3 |-> IF k = 0 THEN 1 ELSE 0]

\* C6: for an 8-bit BMP with a full 256-entry colour table, the colour of the decoded
\* image at (x, y) is the table entry selected by the index byte of the on-disk pixel
\* mapped to (x, y): R, G, B from the entry's third, second and first byte, alpha 255.
\* In the example, pixels (0,0) and (0,1) are RGBA(1,1,1,255).
C6_IndexedColours ==
    (Decoded /\ DeclaredBitCount = 8 /\ DeclaredClrUsed = 0) =>
        /\ \A s \in 0..(DeclaredRows - 1) : \A x \in 0..(DeclaredWidth - 1) :
              LET e == TableEntry(Scanline(s)[x])
              IN  ColorAt(retImg, x, OrientedRow(s)) = <<e[3], e[2], e[1], 255>>
        /\ IsExample =>
              ColorAt(retImg, 0, 0) = <<1, 1, 1, 255>> /\ ColorAt(retImg, 0, 1) = <<1, 1, 1, 255>>

C6_Witness ==
    /\ Decoded /\ IsExample /\ DeclaredClrUsed = 0
    /\ ColorAt(retImg, 0, 0) = <<1, 1, 1, 255>>
    /\ ColorAt(retImg, 0, 1) = <<1, 1, 1, 255>>
    /\ ColorAt(retImg, 1, 1) = <<0, 0, 0, 255>>

\* C7: row padding law. Every scanline read asks for, and when it succeeds consumes,
\* ceil(width * bitCount / 32) * 4 bytes: a multiple of 4, at least the
\* ceil(width * bitCount / 8) bytes of the row's pixels, and width * 4 at 32 bits.
C7_RowPadding ==
    /\ \A i \in OpsOf("row") :
          /\ ops[i].n = ScanlineBytes
          /\ ops[i].n % 4 = 0
          /\ ops[i].n >= Ceil(DeclaredWidth * DeclaredBitCount, 8)
          /\ DeclaredBitCount = 32 => ops[i].n = DeclaredWidth * 4
    /\ OpsOf("row") # {} =>
          pos = DeclaredDataOffset + Cardinality(OkOpsOf("row")) * ScanlineBytes

\* A row whose pixels do not fill its padded length, and one that passes 4 bytes.
C7_Witness ==
    /\ Decoded
    /\ Cardinality(OkOpsOf("row")) = 2
    /\ DeclaredWidth * DeclaredBitCount = 72
    /\ ScanlineBytes = 12
    /\ pos = DeclaredDataOffset + 24

\* The place of a stream operation in Decode's order.
Rank(kind) ==
    CASE kind = "fileHeader" -> 1
      [] kind = "headerSize" -> 2
      [] kind = "infoHeader" -> 3
      [] kind = "palette" -> 4
      [] kind = "masks" -> 5
      [] kind = "seek" -> 6
      [] kind = "row" -> 7

\* C8: the stream operations happen in the order file header, info header, colour
\* table (when present), the four masks (if and only if the mode is bit-fields), one
\* seek to the declared pixel-data offset, scanlines: no scanline before the seek, no
\* metadata after it, no second seek.
C8_StreamOrder ==
    /\ \A i \in 1..(Len(ops) - 1) :
          /\ Rank(ops[i].op) <= Rank(ops[i + 1].op)
          /\ ops[i].ok
          /\ Rank(ops[i].op) = Rank(ops[i + 1].op) => ops[i].op \in {"palette", "row"}
    /\ (ops # <<>> /\ Rank(ops[Len(ops)].op) > 3) =>
          \A k \in {"fileHeader", "headerSize", "infoHeader"} : Cardinality(OkOpsOf(k)) = 1
    /\ Cardinality(OpsOf("seek")) <= 1
    /\ \A i \in OpsOf("seek") :
          /\ ops[i].n = DeclaredDataOffset
          /\ OpsOf("masks") # {} <=> DeclaredCompression = 3
          /\ OpsOf("palette") # {} <=> DeclaredBitCount <= 8
    /\ \A i \in OpsOf("masks") : ops[i].n = 16 /\ DeclaredCompression = 3
    /\ (pc \in {"decode", "rows"} \/ OpsOf("row") # {} \/ Decoded) =>
          Cardinality(OkOpsOf("seek")) = 1

C8_Witness ==
    /\ Decoded
    /\ Cardinality(OkOpsOf("palette")) = 16
    /\ Cardinality(OkOpsOf("masks")) = 1
    /\ Cardinality(OkOpsOf("seek")) = 1
    /\ Cardinality(OkOpsOf("row")) = 2
    /\ DeclaredDataOffset > 14 + 40 + 64 + 16

\* The bitCount-wide field of pixel x of a row, taken most-significant-first.
MSBFirstField(row, x) ==
    IF DeclaredBitCount = 1 THEN (row[x \div 8] \div (2 ^ (7 - (x % 8)))) % 2
    ELSE IF DeclaredBitCount = 4
    THEN (IF x % 2 = 0 THEN row[x \div 2] \div 16 ELSE row[x \div 2] % 16)
    ELSE row[x]

\* C9: the indexed decoder assigns the fields of each row byte to pixels
\* most-significant-first: bit 7 - (x mod 8) at 1 bit, the high nibble to even x and
\* the low nibble to odd x at 4 bits, the whole byte at 8 bits.
C9_MSBFirst ==
    (Decoded /\ DeclaredBitCount \in {1, 4, 8}) =>
        \A s \in 0..(DeclaredRows - 1) : \A x \in 0..(DeclaredWidth - 1) :
            retImg.pix[<<x, OrientedRow(s)>>] = MSBFirstField(Scanline(s), x)

\* C10: every palette index stored in an indexed image is below the length of the
\* palette attached to that image.
C10_IndexInPalette ==
    \A im \in {img, retImg} :
        im.kind = "Paletted" =>
            \A p \in DOMAIN im.pix : im.pix[p] < Len(im.palette)

C10_Witness ==
    /\ Decoded
    /\ retImg.kind = "Paletted"
    /\ \E p \in DOMAIN retImg.pix : retImg.pix[p] = Len(retImg.palette) - 1
    /\ \E p \in DOMAIN retImg.pix : retImg.pix[p] = 0

====
